---------------------------- MODULE Spec2Model ----------------------------
(***************************************************************************)
(* Model of nrt/stability.py: the CCDC stability predicate                 *)
(* (is_stable_ccdc), the iterative stable-fit controller (ccdc_stable_fit) *)
(* and the recursive residual engine (recresid).                           *)
(*                                                                         *)
(* Numbers.  A float is a pair <<n, d>>: d > 0 is the rational n/d in      *)
(* lowest terms, <<0, 0>> is np.nan and <<1, 0>> is a float whose value is *)
(* fixed by rounding error alone (an entry of the "inverse" of an exactly  *)
(* singular matrix, and whatever is computed from it).  Arithmetic on      *)
(* rationals is exact; nan propagates through every operation and every    *)
(* comparison with nan is False, as in IEEE 754.                           *)
(* Matrices are sequences of rows (numpy axis 0 first); indices are        *)
(* 1-based, so numpy row i is row i+1 here.                                *)
(***************************************************************************)
EXTENDS Integers, Sequences, FiniteSets, TLC

VARIABLES
    \* ---- ccdc_stable_fit: arguments
    X, y, dates, threshold,
    \* ---- ccdc_stable_fit: locals
    X_sub, y_sub, dates_sub, enough, is_stable, beta, residuals,
    \* ---- ccdc_stable_fit: control point and history of the call
    pc, iter, origin, stable_iter, exit,
    \* ---- is_stable_ccdc called on its own
    p_slope, p_residuals, p_threshold, p_result, p_pc,
    \* ---- recresid
    r_X, r_y, span, j, r_beta, XTX_j, recresid_, recvar, r_out, r_pc

ctrl_vars == <<X, y, dates, threshold, X_sub, y_sub, dates_sub, enough,
               is_stable, beta, residuals, pc, iter, origin, stable_iter, exit>>
pred_vars == <<p_slope, p_residuals, p_threshold, p_result, p_pc>>
rec_vars  == <<r_X, r_y, span, j, r_beta, XTX_j, recresid_, recvar, r_out, r_pc>>
vars == <<ctrl_vars, pred_vars, rec_vars>>

(***************************************************************************)
(* Exact float arithmetic                                                  *)
(***************************************************************************)
NaN == <<0, 0>>

IsNaN(a) == a = NaN

\* a float fixed by rounding error: finite, infinite or nan, depending on
\* the order and the rounding of the floating-point operations behind it
Rounded == <<1, 0>>

IsRounded(a) == a = Rounded

Abs(n) == IF n < 0 THEN -n ELSE n

RECURSIVE GCD(_, _)
GCD(a, b) == IF b = 0 THEN a ELSE GCD(b, a % b)

\* n/d (d # 0) in lowest terms with a positive denominator
Rat(n, d) ==
    LET g == GCD(Abs(n), Abs(d))
        s == IF d < 0 THEN -1 ELSE 1
    IN  <<(s * n) \div g, (s * d) \div g>>

Num(n) == <<n, 1>>

\* a + b over the least common denominator
RAdd(a, b) ==
    IF IsNaN(a) \/ IsNaN(b) THEN NaN
    ELSE IF IsRounded(a) \/ IsRounded(b) THEN Rounded
    ELSE LET g == GCD(a[2], b[2])
         IN  Rat(a[1] * (b[2] \div g) + b[1] * (a[2] \div g),
                 (a[2] \div g) * b[2])

RNeg(a) == IF IsNaN(a) \/ IsRounded(a) THEN a ELSE <<-a[1], a[2]>>

RSub(a, b) == RAdd(a, RNeg(b))

\* a * b, cancelling across before multiplying
RMul(a, b) ==
    IF IsNaN(a) \/ IsNaN(b) THEN NaN
    ELSE IF IsRounded(a) \/ IsRounded(b) THEN Rounded
    ELSE LET g1 == GCD(Abs(a[1]), b[2])
             g2 == GCD(Abs(b[1]), a[2])
         IN  Rat((a[1] \div g1) * (b[1] \div g2),
                 (a[2] \div g2) * (b[2] \div g1))

\* a / b; x/0 is +-inf or nan in numpy and is never stored by the code
\* modelled here except through the comparisons of RatioLess below
RDiv(a, b) == IF IsNaN(a) \/ IsNaN(b) \/ b[1] = 0 THEN NaN
              ELSE IF IsRounded(a) \/ IsRounded(b) THEN Rounded
              ELSE Rat(a[1] * b[2], a[2] * b[1])

\* a < b, False when either is nan.  The code modelled here compares no
\* value that derives from an inverse, so no Rounded operand reaches it.
RLess(a, b) ==
    /\ ~IsNaN(a) /\ ~IsRounded(a)
    /\ ~IsNaN(b) /\ ~IsRounded(b)
    /\ LET g == GCD(a[2], b[2])
       IN  a[1] * (b[2] \div g) < b[1] * (a[2] \div g)

RAbs(a) == IF IsNaN(a) \/ IsRounded(a) THEN a ELSE <<Abs(a[1]), a[2]>>

RECURSIVE RSum(_)
RSum(s) == IF s = <<>> THEN Num(0) ELSE RAdd(Head(s), RSum(Tail(s)))

(***************************************************************************)
(* numpy array helpers                                                     *)
(***************************************************************************)
\* the sequence f with every element computed once (a numpy array holds
\* values, not expressions)
Arr(f) == f \o <<>>

NCols(M) == IF M = <<>> THEN 0 ELSE Len(M[1])

Col(M, c) == Arr([i \in 1..Len(M) |-> M[i][c]])

\* np.dot of two vectors
Dot(u, v) == RSum(Arr([i \in 1..Len(u) |-> RMul(u[i], v[i])]))

\* np.dot(A, v), A a matrix and v a vector
MatVec(A, v) == Arr([i \in 1..Len(A) |-> Dot(A[i], v)])

\* A.T for a matrix with nc columns
Transpose(A, nc) == Arr([c \in 1..nc |-> Col(A, c)])

\* np.dot(A.T, A) for a matrix with nc columns
Gram(A, nc) == Arr([a \in 1..nc |-> Arr([b \in 1..nc |-> Dot(Col(A, a), Col(A, b))])])

\* M without row i and column c
Minor(M, i, c) ==
    LET keepR == SelectSeq(Arr([k \in 1..Len(M) |-> k]), LAMBDA k : k # i)
        keepC == SelectSeq(Arr([k \in 1..Len(M) |-> k]), LAMBDA k : k # c)
    IN  Arr([a \in 1..Len(keepR) |-> Arr([b \in 1..Len(keepC) |-> M[keepR[a]][keepC[b]]])])

RECURSIVE Det(_)
Det(M) ==
    IF Len(M) = 0 THEN Num(1)
    ELSE IF Len(M) = 1 THEN M[1][1]
    ELSE RSum(Arr([c \in 1..Len(M) |->
                 RMul(IF c % 2 = 1 THEN M[1][c] ELSE RNeg(M[1][c]),
                      Det(Minor(M, 1, c)))]))

\* M is exactly singular (its determinant is 0)
Singular(M) == Det(M)[1] = 0

\* the value np.linalg.inv(M) returns when it returns: adjugate over
\* determinant, and for an exactly singular M, whose factorisation met no
\* zero pivot only through rounding, entries fixed by that rounding
Inv(M) ==
    IF Singular(M)
    THEN Arr([a \in 1..Len(M) |-> Arr([b \in 1..Len(M) |-> Rounded])])
    ELSE LET d == Det(M)
         IN  Arr([a \in 1..Len(M) |-> Arr([b \in 1..Len(M) |->
                 RDiv(IF (a + b) % 2 = 0 THEN Det(Minor(M, b, a))
                      ELSE RNeg(Det(Minor(M, b, a))), d)])])

RECURSIVE IsPow2(_)
IsPow2(d) == d = 1 \/ (d > 1 /\ d % 2 = 0 /\ IsPow2(d \div 2))

RECURSIVE OddPart(_)
OddPart(n) == IF n # 0 /\ n % 2 = 0 THEN OddPart(n \div 2) ELSE Abs(n)

\* 49 is the least odd integer p for which a * (1 / p), rounded to binary64
\* after each operation, can differ from an exactly representable a / p
InexactReciprocal == 49

\* the multiplier a / p of an elimination step comes out exact in binary64
\* whether it is formed as a / p or as a * (1 / p)
ExactMultiplier(a, p) ==
    \/ a[1] = 0
    \/ /\ IsPow2(RDiv(a, p)[2])
       /\ IsPow2(p[2])
       /\ OddPart(p[1]) < InexactReciprocal

\* partial pivoting: the first row with the largest magnitude in column 1
PivotRow(M) ==
    CHOOSE r \in 1..Len(M) :
        /\ \A k \in 1..Len(M) : ~RLess(RAbs(M[r][1]), RAbs(M[k][1]))
        /\ \A k \in 1..(r - 1) : RLess(RAbs(M[k][1]), RAbs(M[r][1]))

\* M with rows 1 and r exchanged
SwapRows(M, r) ==
    Arr([a \in 1..Len(M) |-> IF a = 1 THEN M[r] ELSE IF a = r THEN M[1] ELSE M[a]])

\* what one elimination step on column 1 leaves of M (pivot in row 1)
Eliminate(M) ==
    Arr([a \in 1..(Len(M) - 1) |-> Arr([b \in 1..(Len(M) - 1) |->
        RSub(M[a + 1][b + 1],
             RMul(RDiv(M[a + 1][1], M[1][1]), M[1][b + 1]))])])

\* the LU factorisation behind np.linalg.inv meets a pivot that is exactly
\* 0.0 in every order of the floating-point operations: every step before
\* it is exact
RECURSIVE ZeroPivot(_)
ZeroPivot(M) ==
    /\ Len(M) > 0
    /\ \A P \in {SwapRows(M, PivotRow(M))} :
          \/ P[1][1][1] = 0
          \/ /\ \A a \in 2..Len(P) : ExactMultiplier(P[a][1], P[1][1])
             /\ ZeroPivot(Eliminate(P))

\* whether np.linalg.inv(M) raises LinAlgError: never for a non-singular M,
\* always when the factorisation meets an exact zero pivot, and otherwise,
\* for an exactly singular M, as the rounding of the build decides
InvRaises(M) ==
    IF ~Singular(M) THEN {FALSE}
    ELSE IF ZeroPivot(M) THEN {TRUE}
    ELSE {TRUE, FALSE}

\* indices at which a boolean mask is True, ascending (boolean indexing)
Where(mask) == SelectSeq(Arr([c \in 1..Len(mask) |-> c]), LAMBDA c : mask[c])

\* M[:, mask]
SelectCols(M, mask) ==
    LET w == Where(mask)
    IN  Arr([i \in 1..Len(M) |-> Arr([c \in 1..Len(w) |-> M[i][w[c]]])])

\* v[mask]
SelectItems(v, mask) ==
    LET w == Where(mask)
    IN  Arr([c \in 1..Len(w) |-> v[w[c]]])

\* position of column c among the True entries of mask
Rank(mask, c) == Cardinality({b \in 1..c : mask[b]})

\* v[mask] = sub
PutItems(v, mask, sub) ==
    Arr([c \in 1..Len(v) |-> IF mask[c] THEN sub[Rank(mask, c)] ELSE v[c]])

\* M[:, mask] = Sub
PutCols(M, mask, Sub) ==
    Arr([i \in 1..Len(M) |-> PutItems(M[i], mask, Sub[i])])

\* np.count_nonzero(~np.isnan(M), axis=0) for a matrix with nc columns
CountValid(M, nc) ==
    Arr([c \in 1..nc |-> Cardinality({i \in 1..Len(M) : ~IsNaN(M[i][c])})])

\* s[2:]
Drop2(s) == SubSeq(s, 3, Len(s))

(***************************************************************************)
(* fit_methods.ols: the exact least-squares provider.  Each column of y is *)
(* fit on the rows where it is not missing; the residual of a row is       *)
(* prediction minus observation, missing where the observation is.         *)
(***************************************************************************)
\* rows of y's column c that are not missing
ValidRows(ycol) == SelectSeq(Arr([i \in 1..Len(ycol) |-> i]), LAMBDA i : ~IsNaN(ycol[i]))

\* True when the normal equations of some column are singular
ols_fails(Xm, ym) ==
    \E c \in 1..NCols(ym) :
        LET v  == ValidRows(Col(ym, c))
            Xv == Arr([a \in 1..Len(v) |-> Xm[v[a]]])
        IN  Singular(Gram(Xv, NCols(Xm)))

\* coefficient vector of one column
ols_beta(Xm, ycol) ==
    LET v  == ValidRows(ycol)
        Xv == Arr([a \in 1..Len(v) |-> Xm[v[a]]])
        yv == Arr([a \in 1..Len(v) |-> ycol[v[a]]])
        nc == NCols(Xm)
    IN  MatVec(Inv(Gram(Xv, nc)), MatVec(Transpose(Xv, nc), yv))

\* [beta |-> p x k matrix, residuals |-> rows x k matrix]
ols(Xm, ym) ==
    LET nc == NCols(Xm)
        k  == NCols(ym)
        b  == Arr([c \in 1..k |-> ols_beta(Xm, Col(ym, c))])
    IN  [beta      |-> Arr([a \in 1..nc |-> Arr([c \in 1..k |-> b[c][a]])]),
         residuals |-> Arr([i \in 1..Len(ym) |->
                          Arr([c \in 1..k |-> RSub(Dot(Xm[i], b[c]), ym[i][c])])])]

(***************************************************************************)
(* is_stable_ccdc                                                          *)
(***************************************************************************)
\* np.nanmean(residuals ** 2, axis=0) of one column: rmse squared
MeanSquare(rcol) ==
    LET v == ValidRows(rcol)
    IN  IF Len(v) = 0 THEN NaN
        ELSE RDiv(RSum(Arr([a \in 1..Len(v) |-> RMul(rcol[v[a]], rcol[v[a]])])),
                  Num(Len(v)))

\* v / sqrt(msq) < t, with numpy's division by zero (+-inf, nan) and nan
\* comparisons; for msq > 0 the comparison is decided on squares
RatioLess(v, msq, t) ==
    IF IsNaN(v) \/ IsNaN(msq) THEN FALSE
    ELSE IF msq[1] = 0 THEN v[1] < 0
    ELSE IF v[1] < 0 /\ t >= 0 THEN TRUE
    ELSE IF v[1] >= 0 /\ t <= 0 THEN FALSE
    ELSE IF v[1] >= 0 THEN RLess(RMul(v, v), RMul(Num(t * t), msq))
    ELSE RLess(RMul(Num(t * t), msq), RMul(v, v))

slope_rmse(slope, res, t, c) == RatioLess(slope[c], MeanSquare(Col(res, c)), t)

first(res, t, c) == RatioLess(res[1][c], MeanSquare(Col(res, c)), t)

last(res, t, c) == RatioLess(res[Len(res)][c], MeanSquare(Col(res, c)), t)

is_stable_ccdc(slope, res, t) ==
    Arr([c \in 1..Len(slope) |->
        slope_rmse(slope, res, t, c) /\ first(res, t, c) /\ last(res, t, c)])

(***************************************************************************)
(* ccdc_stable_fit                                                         *)
(*                                                                         *)
(* dates are numpy datetime64[M] values (months since the epoch), so a     *)
(* difference is a timedelta64[M] and astype('timedelta64[Y]') is the      *)
(* floor division by 12.                                                   *)
(* origin, stable_iter, iter and exit record the history of the call:      *)
(* origin[c] is the original index of column c of y_sub, stable_iter[c]    *)
(* the iteration (0-based) in which original column c was flagged stable   *)
(* (-1: never), iter the number of fits started, exit why the loop ended.  *)
(***************************************************************************)
\* delta.astype('timedelta64[Y]')
Years(delta) == delta \div 12

\* variant of SpanTooShort: <= in place of <
SpanTooShort_le(first_date, last_date) == Years(last_date - first_date) <= 1

\* delta.astype('timedelta64[Y]') < np.timedelta64(1, 'Y')
SpanTooShort(first_date, last_date) == Years(last_date - first_date) < 1

\* the span test at call entry
EntrySpanTooShort(d) == SpanTooShort(d[1], d[Len(d)])

\* variant of Enough: >= in place of >
Enough_ge(obs_count, p) == 2 * obs_count >= 3 * p

\* obs_count > X.shape[1] * 1.5, on integers
Enough(obs_count, p) == 2 * obs_count > 3 * p

\* ~is_stable & enough
ActiveMask(stable, en) == Arr([c \in 1..Len(en) |-> ~stable[c] /\ en[c]])

\* np.full(shape, np.nan)
FullNaN(nr, nc) == Arr([i \in 1..nr |-> Arr([c \in 1..nc |-> NaN])])

\* variant of WriteResiduals: line 73 (the reset to nan) left out
WriteResiduals_keep(res, mask, res_sub) ==
    LET n    == Len(res)
        rows == Len(res_sub)
    IN  Arr([i \in 1..n |->
            IF i > n - rows THEN PutItems(res[i], mask, res_sub[i - (n - rows)])
            ELSE res[i]])

\* residuals[:, mask] = np.nan ; residuals[-rows:, mask] = residuals_sub
WriteResiduals(res, mask, res_sub) ==
    LET n    == Len(res)
        rows == Len(res_sub)
        na   == Len(Where(mask))
        blank == PutCols(res, mask, FullNaN(n, na))
    IN  Arr([i \in 1..n |->
            IF i > n - rows THEN PutItems(blank[i], mask, res_sub[i - (n - rows)])
            ELSE blank[i]])

\* beta[:, mask] = beta_sub
WriteBeta(b, mask, beta_sub) == PutCols(b, mask, beta_sub)

\* is_stable[~is_stable & enough] = is_stable_sub
MarkStable(stable, en, stable_sub) ==
    PutItems(stable, ActiveMask(stable, en), stable_sub)

\* y_sub[2:, ~is_stable_sub]
ShrinkY(ys, stable_sub) ==
    SelectCols(Drop2(ys), Arr([c \in 1..Len(stable_sub) |-> ~stable_sub[c]]))

\* variant of ShrinkX: one row dropped instead of two
ShrinkX_one(Xs) == SubSeq(Xs, 2, Len(Xs))

\* X_sub[2:, :]
ShrinkX(Xs) == Drop2(Xs)

\* dates[2:]
ShrinkDates(d) == Drop2(d)

\* obs_count > X.shape[1] * 1.5 on the shrunk window
EnoughSub(ys, nc, p) ==
    LET cnt == CountValid(ys, nc)
    IN  Arr([c \in 1..nc |-> Enough(cnt[c], p)])

\* variant of MarkEnough: columns already stable are cleared as well
MarkEnough_retire(stable, en, enough_sub) ==
    Arr([c \in 1..Len(en) |->
        IF stable[c] THEN FALSE
        ELSE PutItems(en, ActiveMask(stable, en), enough_sub)[c]])

\* enough[~is_stable & enough] = enough_sub
MarkEnough(stable, en, enough_sub) ==
    PutItems(en, ActiveMask(stable, en), enough_sub)

\* not np.all(is_stable | ~enough)
LoopCondition(stable, en) == ~(\A c \in 1..Len(en) : stable[c] \/ ~en[c])

\* lines 49-66: the initial masks, the span test and the output buffers
Entry ==
    /\ pc = "entry"
    /\ LET n  == Len(y)
           k  == NCols(y)
           p  == NCols(X)
           obs_count == CountValid(y, k)
           en == Arr([c \in 1..k |-> Enough(obs_count[c], p)])
       IN  /\ enough' = en
           /\ is_stable' = Arr([c \in 1..k |-> FALSE])
           /\ y_sub' = SelectCols(y, en)
           /\ origin' = Where(en)
           /\ X_sub' = X
           /\ dates_sub' = dates
           /\ stable_iter' = Arr([c \in 1..k |-> -1])
           /\ IF EntrySpanTooShort(dates)
              THEN /\ pc' = "ValueError"
                   /\ UNCHANGED <<beta, residuals>>
              ELSE /\ pc' = "loop"
                   /\ beta' = FullNaN(p, k)
                   /\ residuals' = FullNaN(n, k)
    /\ UNCHANGED <<X, y, dates, threshold, iter, exit, pred_vars, rec_vars>>

\* lines 69-100: one pass through the body of the while loop, given the
\* regression provider's answer fit and the predicate's answer st_sub
Body(fit, st_sub) ==
    LET p      == NCols(X)
        mask   == ActiveMask(is_stable, enough)
        stab1  == MarkStable(is_stable, enough, st_sub)
        keep   == Arr([c \in 1..Len(st_sub) |-> ~st_sub[c]])
        y1     == ShrinkY(y_sub, st_sub)
        o1     == SelectItems(origin, keep)
        d1     == ShrinkDates(dates_sub)
        en_sub == EnoughSub(y1, Len(o1), p)
    IN  /\ is_stable' = stab1
        /\ stable_iter' =
              Arr([c \in 1..Len(mask) |->
                  IF mask[c] /\ st_sub[Rank(mask, c)] THEN iter
                  ELSE stable_iter[c]])
        /\ X_sub' = ShrinkX(X_sub)
        /\ dates_sub' = d1
        /\ IF d1 = <<>>
           THEN \* dates[0] on an empty array
                /\ pc' = "IndexError"
                /\ exit' = "IndexError"
                /\ y_sub' = y1
                /\ origin' = o1
                /\ UNCHANGED enough
           ELSE IF SpanTooShort(d1[1], dates[Len(dates)])
           THEN \* break, then return
                /\ pc' = "returned"
                /\ exit' = "span"
                /\ y_sub' = y1
                /\ origin' = o1
                /\ UNCHANGED enough
           ELSE /\ pc' = "loop"
                /\ enough' = MarkEnough(stab1, enough, en_sub)
                /\ y_sub' = SelectCols(y1, en_sub)
                /\ origin' = SelectItems(o1, en_sub)
                /\ UNCHANGED exit

Iterate ==
    /\ pc = "loop"
    /\ LoopCondition(is_stable, enough)
    /\ iter' = iter + 1
    /\ IF ols_fails(X_sub, y_sub)
       THEN \* the regression provider raises
            /\ pc' = "LinAlgError"
            /\ exit' = "LinAlgError"
            /\ UNCHANGED <<X_sub, y_sub, dates_sub, enough, is_stable, beta,
                           residuals, origin, stable_iter>>
       ELSE \E fit \in {ols(X_sub, y_sub)} :
            /\ beta' = WriteBeta(beta, ActiveMask(is_stable, enough), fit.beta)
            /\ residuals' = WriteResiduals(residuals,
                                ActiveMask(is_stable, enough), fit.residuals)
            /\ IF NCols(X) < 2
               THEN \* beta_sub[1, :] on a one-row coefficient matrix
                    /\ pc' = "IndexError"
                    /\ exit' = "IndexError"
                    /\ UNCHANGED <<X_sub, y_sub, dates_sub, enough, is_stable,
                                   origin, stable_iter>>
               ELSE \E st_sub \in {is_stable_ccdc(fit.beta[2], fit.residuals,
                                                  threshold)} :
                        Body(fit, st_sub)
    /\ UNCHANGED <<X, y, dates, threshold, pred_vars, rec_vars>>

\* line 69 false, line 101: every column is stable or lacks data
Return ==
    /\ pc = "loop"
    /\ ~LoopCondition(is_stable, enough)
    /\ pc' = "returned"
    /\ exit' = "done"
    /\ UNCHANGED <<X, y, dates, threshold, X_sub, y_sub, dates_sub, enough,
                   is_stable, beta, residuals, iter, origin, stable_iter,
                   pred_vars, rec_vars>>

(***************************************************************************)
(* Inputs of ccdc_stable_fit                                               *)
(***************************************************************************)
MaxRows == 6

ColumnCounts == {1, 2}

DesignWidths == {1, 2}

Thresholds == {1, 3}

\* months between consecutive acquisitions
DateSteps == {1, 6, 12}

Trends == {-1, 1}

Noises == {"none", "alt", "spike"}

Gaps == {"none", "head", "tail", "all"}

RECURSIVE Power(_, _)
Power(b, e) == IF e = 0 THEN 1 ELSE b * Power(b, e - 1)

\* intercept, trend, ...: row i is (1, i-1, (i-1)^2, ...)
DesignMatrix(n, p) == Arr([i \in 1..n |-> Arr([a \in 1..p |-> Num(Power(i - 1, a - 1))])])

DateSeq(n, step) == Arr([i \in 1..n |-> (i - 1) * step])

\* a pixel time series: a linear trend, a disturbance, and missing acquisitions
Series(n, trend, noise, gap) ==
    Arr([i \in 1..n |->
        IF \/ gap = "all"
           \/ gap = "head" /\ i = 1
           \/ gap = "tail" /\ i > n - 2
        THEN NaN
        ELSE Num(trend * (i - 1)
                 + (CASE noise = "none"  -> 0
                      [] noise = "alt"   -> IF i % 2 = 0 THEN 1 ELSE -1
                      [] noise = "spike" -> IF i = 2 THEN 4 ELSE 0))])

SeriesSet(n) == {Series(n, t, z, g) : t \in Trends, z \in Noises, g \in Gaps}

\* the n x k matrix whose columns are cols
FromColumns(n, cols) == Arr([i \in 1..n |-> Arr([c \in 1..Len(cols) |-> cols[c][i]])])

IdleCtrl ==
    /\ X = <<>> /\ y = <<>> /\ dates = <<>> /\ threshold = 0
    /\ X_sub = <<>> /\ y_sub = <<>> /\ dates_sub = <<>> /\ enough = <<>>
    /\ is_stable = <<>> /\ beta = <<>> /\ residuals = <<>>
    /\ pc = "idle" /\ iter = 0 /\ origin = <<>> /\ stable_iter = <<>>
    /\ exit = "none"

IdlePred ==
    /\ p_slope = <<>> /\ p_residuals = <<>> /\ p_threshold = 0
    /\ p_result = <<>> /\ p_pc = "idle"

IdleRec ==
    /\ r_X = <<>> /\ r_y = <<>> /\ span = 0 /\ j = 0 /\ r_beta = <<>>
    /\ XTX_j = <<>> /\ recresid_ = <<>> /\ recvar = <<>> /\ r_out = <<>>
    /\ r_pc = "idle"

CallStart ==
    /\ X_sub = <<>> /\ y_sub = <<>> /\ dates_sub = <<>> /\ enough = <<>>
    /\ is_stable = <<>> /\ beta = <<>> /\ residuals = <<>>
    /\ pc = "entry" /\ iter = 0 /\ origin = <<>> /\ stable_iter = <<>>
    /\ exit = "none"

\* the bounded family of calls
SmallCalls ==
    /\ \E n \in 2..MaxRows, k \in ColumnCounts, p \in DesignWidths,
          step \in DateSteps :
          /\ X = DesignMatrix(n, p)
          /\ dates = DateSeq(n, step)
          /\ \E cols \in [1..k -> SeriesSet(n)] : y = FromColumns(n, cols)
    /\ threshold \in Thresholds

\* The end-to-end scenario: X = [[1,0],...,[1,11]], twelve dates whose first
\* and last are exactly 12 months apart (one month of the thirteen has no
\* acquisition), threshold 3 and three pixels: a clean linear trend, a trend
\* with one large early outlier, and a pixel with fewer than 3 valid
\* observations.
ScenarioDates(skip) ==
    Arr([i \in 1..12 |-> IF i <= skip THEN i - 1 ELSE i])

ScenarioClean(a, b) == Arr([i \in 1..12 |-> Num(a + b * (i - 1))])

ScenarioOutlier(b, pos, h) ==
    Arr([i \in 1..12 |->
        Num(b * (i - 1) + (IF i % 2 = 0 THEN 1 ELSE -1)
            + (IF i = pos THEN h ELSE 0))])

ScenarioSparse(valid) ==
    Arr([i \in 1..12 |-> IF i \in valid THEN Num(i) ELSE NaN])

ScenarioCalls ==
    /\ X = DesignMatrix(12, 2)
    /\ threshold = 3
    /\ \E skip \in 1..11 : dates = ScenarioDates(skip)
    /\ \E a \in {0, 1}, b \in {-2, 1, 3}, b1 \in {0, 1}, pos \in {1, 2},
          h \in {-6, 6}, valid \in {{}, {4}, {1, 12}, {6, 7}} :
          y = FromColumns(12,
                          <<ScenarioClean(a, b), ScenarioOutlier(b1, pos, h),
                            ScenarioSparse(valid)>>)

Init ==
    /\ SmallCalls \/ ScenarioCalls
    /\ CallStart
    /\ IdlePred
    /\ IdleRec

Next == Entry \/ Iterate \/ Return

Spec == Init /\ [][Next]_vars

(***************************************************************************)
(* Properties of ccdc_stable_fit                                           *)
(***************************************************************************)
InLoop == pc \in {"loop", "returned"}

NPixels == NCols(y)

Stable(c) == is_stable[c]

InsufficientData(c) == ~enough[c]

StillIterating(c) == ~is_stable[c] /\ enough[c]

\* number of observations of original column c that are not missing
ObsCount(c) == Cardinality({i \in 1..Len(y) : ~IsNaN(y[i][c])})

\* rows [2i, n) of a matrix or vector of the call's arguments (0-based i)
Window(M, i) == SubSeq(M, 2 * i + 1, Len(M))

\* the fit of original column c on the window of iteration i
WindowFit(c, i) ==
    ols(Window(X, i),
        Arr([r \in 1..(Len(y) - 2 * i) |-> <<Window(y, i)[r][c]>>]))

\* C1: at every loop iteration and at return each column is in exactly one
\* of the classes stable, insufficient-data, still-iterating; a stable
\* column is never insufficient-data, and both classes are absorbing.
C1_Classes ==
    InLoop =>
        \A c \in 1..NPixels :
            /\ Cardinality({q \in {"s", "i", "a"} :
                   \/ q = "s" /\ Stable(c)
                   \/ q = "i" /\ InsufficientData(c)
                   \/ q = "a" /\ StillIterating(c)}) = 1
            /\ ~(Stable(c) /\ InsufficientData(c))

C1_Absorbing ==
    (pc = "loop" /\ pc' \in {"loop", "returned"}) =>
        \A c \in 1..NPixels :
            /\ Stable(c) => is_stable'[c] /\ enough'[c]
            /\ InsufficientData(c) => ~enough'[c] /\ ~is_stable'[c]

C1_ActiveSetPartition == [](C1_Classes) /\ [][C1_Absorbing]_vars

\* C1 witness: a call that returned after two fits with one column retired
\* as stable and another retired for lack of data inside the loop
C1_Witness ==
    /\ pc = "returned"
    /\ iter >= 2
    /\ \E c \in 1..NPixels : Stable(c)
    /\ \E c \in 1..NPixels : InsufficientData(c) /\ Enough(ObsCount(c), NCols(X))

\* C2: a column flagged stable in iteration i keeps, from then on and at
\* return, the coefficients of the fit on rows [2i, n), that fit's
\* residuals in rows [2i, n) and the missing sentinel in rows [0, 2i).
C2_StableFitRetained ==
    InLoop =>
        \A c \in 1..NPixels :
            Stable(c) =>
                \A fit \in {WindowFit(c, stable_iter[c])} :
                    /\ stable_iter[c] >= 0
                    /\ \A a \in 1..NCols(X) : beta[a][c] = fit.beta[a][1]
                    /\ \A i \in 1..Len(y) :
                          residuals[i][c] =
                              IF i <= 2 * stable_iter[c] THEN NaN
                              ELSE fit.residuals[i - 2 * stable_iter[c]][1]

\* C2 witness: a column that became stable after a window shrink, whose
\* first two residual rows were filled by the earlier fit and are missing now
C2_Witness ==
    /\ pc = "returned"
    /\ \E c \in 1..NPixels :
          /\ Stable(c)
          /\ stable_iter[c] >= 1
          /\ ~IsNaN(y[2][c])
          /\ IsNaN(residuals[2][c])
          /\ ~IsNaN(residuals[3][c])

\* C5: a column has enough data iff its valid observations strictly exceed
\* 1.5 p; a column failing this on the full window is never passed to the
\* fit and is returned not stable, with missing coefficients and residuals.
C5_InsufficientExcluded ==
    pc \in {"loop", "returned", "IndexError", "LinAlgError"} =>
        \A c \in 1..NPixels :
            /\ (iter = 0 /\ pc = "loop") =>
                   (enough[c] <=> 2 * ObsCount(c) > 3 * NCols(X))
            /\ ~(2 * ObsCount(c) > 3 * NCols(X)) =>
                   /\ ~enough[c]
                   /\ ~is_stable[c]
                   /\ \A q \in 1..Len(origin) : origin[q] # c
                   /\ \A a \in 1..NCols(X) : IsNaN(beta[a][c])
                   /\ \A i \in 1..Len(y) : IsNaN(residuals[i][c])

\* C5 witness: a returned call that fitted some column while another one
\* had no valid observation at all
C5_Witness ==
    /\ pc = "returned"
    /\ iter >= 1
    /\ \E c \in 1..NPixels : ObsCount(c) = 0

\* C6: the span failure (ValueError) occurs only at entry, before any fit
\* and before any output exists; a span that drops below one year after a
\* window shrink ends the loop and the call returns the triple, unresolved
\* columns flagged not stable with their last fit.
C6_SpanFailureOnlyAtEntry ==
    /\ pc = "ValueError" =>
          /\ iter = 0
          /\ beta = <<>> /\ residuals = <<>>
          /\ dates[Len(dates)] - dates[1] < 12
    /\ (dates[Len(dates)] - dates[1] < 12) => pc \in {"entry", "ValueError"}
    /\ pc \in {"IndexError", "LinAlgError"} =>
          Len(dates_sub) = Len(dates) - 2 * (iter - 1)
    /\ (InLoop /\ iter >= 1 /\ dates[Len(dates)] - dates_sub[1] < 12) =>
          /\ pc = "returned"
          /\ exit = "span"
          /\ Len(beta) = NCols(X) /\ Len(residuals) = Len(y)
          /\ Len(is_stable) = NPixels
          /\ \A c \in 1..NPixels :
                StillIterating(c) =>
                    \A fit \in {WindowFit(c, iter - 1)} :
                        /\ \A a \in 1..NCols(X) : beta[a][c] = fit.beta[a][1]
                        /\ \A i \in 1..Len(y) :
                              residuals[i][c] =
                                  IF i <= 2 * (iter - 1) THEN NaN
                                  ELSE fit.residuals[i - 2 * (iter - 1)][1]

\* C6 witness: a call that left the loop on the span test after a window
\* shrink, with a column still unresolved
C6_Witness ==
    /\ pc = "returned"
    /\ exit = "span"
    /\ iter >= 2
    /\ \E c \in 1..NPixels : StillIterating(c) /\ ~IsNaN(beta[1][c])

\* C7 (as claimed): with p >= 1 and a span of at least one year at entry
\* the call raises nothing, ends only on the two loop conditions and runs
\* at most ceil(n/2) iterations.
C7_AlwaysReturns ==
    (dates[Len(dates)] - dates[1] >= 12) =>
        /\ pc \in {"entry", "loop", "returned"}
        /\ 2 * iter <= Len(y) + 1
        /\ pc = "returned" => exit \in {"done", "span"}

\* C10: at the start of iteration i the working X_sub, y_sub and dates are
\* the last n - 2i rows of the arguments, the columns of y_sub are the
\* original columns neither stable nor short of data, in original order
\* (C10_Window), and a fit is written to exactly those columns (C10_Writes).
C10_Window ==
    pc = "loop" =>
        /\ Len(X_sub) = Len(y) - 2 * iter
        /\ Len(y_sub) = Len(y) - 2 * iter
        /\ Len(dates_sub) = Len(y) - 2 * iter
        /\ X_sub = Window(X, iter)
        /\ dates_sub = Window(dates, iter)
        /\ origin = Where(ActiveMask(is_stable, enough))
        /\ y_sub = SelectCols(Window(y, iter), ActiveMask(is_stable, enough))

C10_Writes ==
    (pc = "loop" /\ pc' \in {"loop", "returned"} /\ iter' = iter + 1) =>
        \A c \in 1..NPixels :
            IF StillIterating(c)
            THEN \A fit \in {WindowFit(c, iter)} :
                    /\ \A a \in 1..NCols(X) : beta'[a][c] = fit.beta[a][1]
                    /\ \A i \in (2 * iter + 1)..Len(y) :
                          residuals'[i][c] = fit.residuals[i - 2 * iter][1]
            ELSE /\ \A a \in 1..NCols(X) : beta'[a][c] = beta[a][c]
                 /\ \A i \in 1..Len(y) : residuals'[i][c] = residuals[i][c]

C10_LoopInvariant == [](C10_Window) /\ [][C10_Writes]_vars

\* C10 witness: the second iteration starts with the first column retired
\* and the second one still active
C10_Witness ==
    /\ pc = "loop"
    /\ iter = 1
    /\ NPixels = 2
    /\ origin = <<2>>
    /\ Stable(1)

\* the inputs of the end-to-end scenario
Scenario ==
    /\ X = DesignMatrix(12, 2)
    /\ Len(dates) = 12
    /\ dates[12] - dates[1] = 12
    /\ threshold = 3
    /\ NPixels = 3
    /\ ObsCount(1) = 12
    /\ \A i \in 2..11 :
          RSub(y[i + 1][1], y[i][1]) = RSub(y[i][1], y[i - 1][1])
    /\ ObsCount(3) < 3

\* C9 (as claimed): in the end-to-end scenario the call returns normally,
\* column 0 (clean linear trend, all residuals zero) is flagged stable on
\* the first iteration, and column 2 is not stable with missing coefficients.
C9_EndToEnd ==
    Scenario =>
        /\ pc \in {"entry", "loop", "returned"}
        /\ pc = "returned" =>
              /\ is_stable[1] /\ stable_iter[1] = 0
              /\ ~is_stable[3]
              /\ \A a \in 1..NCols(X) : IsNaN(beta[a][3])

(***************************************************************************)
(* is_stable_ccdc on its own inputs                                        *)
(***************************************************************************)
MaxPredRows == 3

PredValues == {NaN, Num(-2), Num(-1), Num(0), Num(1), Num(2)}

PredThresholds == {1, 2}

InitPred ==
    /\ \E n \in 1..MaxPredRows :
          \E col \in [1..n -> PredValues] :
              p_residuals = Arr([i \in 1..n |-> <<col[i]>>])
    /\ \E v \in PredValues : p_slope = <<v>>
    /\ p_threshold \in PredThresholds
    /\ p_result = <<>>
    /\ p_pc = "call"
    /\ IdleCtrl
    /\ IdleRec

CallPredicate ==
    /\ p_pc = "call"
    /\ p_result' = is_stable_ccdc(p_slope, p_residuals, p_threshold)
    /\ p_pc' = "done"
    /\ UNCHANGED <<p_slope, p_residuals, p_threshold, ctrl_vars, rec_vars>>

NextPred == CallPredicate

SpecPred == InitPred /\ [][NextPred]_vars

\* rmse > 0 for column c of the predicate's residuals
PositiveRmse(c) ==
    LET m == MeanSquare(Col(p_residuals, c))
    IN  ~IsNaN(m) /\ m[1] > 0

\* residual of column c at its first / last row that is not missing
FirstValid(c) ==
    LET v == ValidRows(Col(p_residuals, c))
    IN  IF v = <<>> THEN NaN ELSE p_residuals[v[1]][c]

LastValid(c) ==
    LET v == ValidRows(Col(p_residuals, c))
    IN  IF v = <<>> THEN NaN ELSE p_residuals[v[Len(v)]][c]

\* C3 (as claimed): with rmse > 0 a column is flagged stable iff the
\* magnitudes |slope|/rmse, |first residual|/rmse and |last residual|/rmse
\* are all below the threshold.
C3_Magnitudes ==
    p_pc = "done" =>
        \A c \in 1..Len(p_slope) :
            PositiveRmse(c) =>
                (p_result[c] <=>
                    \A m \in {MeanSquare(Col(p_residuals, c))} :
                        /\ RatioLess(RAbs(p_slope[c]), m, p_threshold)
                        /\ RatioLess(RAbs(p_residuals[1][c]), m, p_threshold)
                        /\ RatioLess(RAbs(p_residuals[Len(p_residuals)][c]), m,
                                     p_threshold))

\* C4 (as claimed): the endpoint tests use the residuals at the column's
\* first and last rows that are not missing, so a column whose first or
\* last residual row is missing is judged on those and can be stable.
C4_ValidEndpoints ==
    p_pc = "done" =>
        \A c \in 1..Len(p_slope) :
            PositiveRmse(c) =>
                (p_result[c] <=>
                    \A m \in {MeanSquare(Col(p_residuals, c))} :
                        /\ RatioLess(p_slope[c], m, p_threshold)
                        /\ RatioLess(FirstValid(c), m, p_threshold)
                        /\ RatioLess(LastValid(c), m, p_threshold))

(***************************************************************************)
(* recresid                                                                *)
(*                                                                         *)
(* r_X, r_y and span are the arguments; j is the (1-based) row the loop    *)
(* handles next.  The returned recresid_ / np.sqrt(recvar) is irrational   *)
(* in general; an entry r / sqrt(f) (f > 0) is held as sign(r) * r^2 / f,  *)
(* which orders and separates the same values.                             *)
(***************************************************************************)
\* np.dot(XTX_j, x_j.T)
Gain(M, x) == MatVec(M, x)

\* variant of PredVar: the leading 1 + left out
PredVar_noone(M, x) == Dot(x, MatVec(M, x))

\* 1 + np.dot(x_j, XTXx_j)
PredVar(M, x) == RAdd(Num(1), Dot(x, MatVec(M, x)))

\* XTX_j - np.dot(XTXx_j, XTXx_j.T) / f_t        (eqn 5.5.15)
Downdate(M, g, f) ==
    Arr([a \in 1..Len(M) |-> Arr([b \in 1..Len(M) |->
            RSub(M[a][b], RDiv(RMul(g[a], g[b]), f))])])

\* beta + (XTXx_j * resid_j / f_t).ravel()        (eqn 5.5.14)
UpdateBeta(b, g, r, f) ==
    Arr([a \in 1..Len(b) |-> RAdd(b[a], RDiv(RMul(g[a], r), f))])

\* r / sqrt(f), as sign(r) * r^2 / f
Standardize(r, f) ==
    IF IsNaN(r) \/ IsNaN(f) THEN NaN
    ELSE IF IsRounded(r) \/ IsRounded(f) THEN Rounded
    ELSE IF r[1] < 0 THEN RNeg(RDiv(RMul(r, r), f))
    ELSE RDiv(RMul(r, r), f)

\* lines 136-152: the initial fit on rows [0, span)
RecInit ==
    /\ r_pc = "start"
    /\ LET nobs  == Len(r_X)
           nvars == NCols(r_X)
           X0    == SubSeq(r_X, 1, span)
           y0    == SubSeq(r_y, 1, span)
       IN  \E raises \in InvRaises(Gram(X0, nvars)) :
           IF raises
           THEN \* np.linalg.inv raises LinAlgError
                /\ r_pc' = "LinAlgError"
                /\ UNCHANGED <<j, r_beta, XTX_j, recresid_, recvar>>
           ELSE \E M \in {Inv(Gram(X0, nvars))} :
                \E b \in {MatVec(M, MatVec(Transpose(X0, nvars), y0))} :
                    /\ XTX_j' = M
                    /\ r_beta' = b
                    /\ recresid_' =
                          Arr([i \in 1..nobs |->
                              IF i = span THEN RSub(r_y[span], Dot(r_X[span], b))
                              ELSE NaN])
                    /\ recvar' =
                          Arr([i \in 1..nobs |->
                              IF i = span THEN PredVar(M, r_X[span]) ELSE NaN])
                    /\ j' = span + 1
                    /\ r_pc' = "loop"
    /\ UNCHANGED <<r_X, r_y, span, r_out, ctrl_vars, pred_vars>>

\* lines 153-167: one pass of the loop, for row j
RecStep ==
    /\ r_pc = "loop"
    /\ j <= Len(r_X)
    /\ \E x_j \in {r_X[j]} :
       \E resid_j \in {RSub(r_y[j], Dot(x_j, r_beta))} :
       \E XTXx_j \in {Gain(XTX_j, x_j)} :
       \E f_t \in {PredVar(XTX_j, x_j)} :
           /\ XTX_j' = Downdate(XTX_j, XTXx_j, f_t)
           /\ r_beta' = UpdateBeta(r_beta, XTXx_j, resid_j, f_t)
           /\ recresid_' = [recresid_ EXCEPT ![j] = resid_j]
           /\ recvar' = [recvar EXCEPT ![j] = f_t]
    /\ j' = j + 1
    /\ UNCHANGED <<r_X, r_y, span, r_out, r_pc, ctrl_vars, pred_vars>>

\* line 169
RecReturn ==
    /\ r_pc = "loop"
    /\ j > Len(r_X)
    /\ r_out' = Arr([i \in 1..Len(r_X) |-> Standardize(recresid_[i], recvar[i])])
    /\ r_pc' = "done"
    /\ UNCHANGED <<r_X, r_y, span, j, r_beta, XTX_j, recresid_, recvar,
                   ctrl_vars, pred_vars>>

MaxRecRows == 4

RecWidths == {1, 2}

RecXValues == {0, 1, 3}

RecYValues == {0, 1}

\* design rows (1, x) for two columns, (x) for one
RecDesign(xs, nvars) ==
    Arr([i \in 1..Len(xs) |->
        IF nvars = 1 THEN <<Num(xs[i])>> ELSE <<Num(1), Num(xs[i])>>])

InitRec ==
    /\ \E n \in 2..MaxRecRows, nvars \in RecWidths :
          /\ \E xs \in [1..n -> RecXValues] : r_X = RecDesign(xs, nvars)
          /\ \E ys \in [1..n -> RecYValues] :
                r_y = Arr([i \in 1..n |-> Num(ys[i])])
          /\ span \in 1..n
    /\ j = 0 /\ r_beta = <<>> /\ XTX_j = <<>> /\ recresid_ = <<>>
    /\ recvar = <<>> /\ r_out = <<>>
    /\ r_pc = "start"
    /\ IdleCtrl
    /\ IdlePred

NextRec == RecInit \/ RecStep \/ RecReturn

SpecRec == InitRec /\ [][NextRec]_vars

\* b solves the normal equations of rows [0, m): the batch least-squares fit
BatchFit(b, m) ==
    LET Xm == SubSeq(r_X, 1, m)
        nv == NCols(r_X)
    IN  MatVec(Gram(Xm, nv), b) = MatVec(Transpose(Xm, nv), SubSeq(r_y, 1, m))

\* the batch least-squares coefficients of rows [0, m), by Cramer-free solve
BatchBeta(m) ==
    LET Xm == SubSeq(r_X, 1, m)
        nv == NCols(r_X)
    IN  MatVec(Inv(Gram(Xm, nv)), MatVec(Transpose(Xm, nv), SubSeq(r_y, 1, m)))

\* C8: with full rank on rows [0, span) and p <= span < n, after the update
\* for row j the coefficients equal the batch least-squares fit on rows
\* [0, j], the residual recorded at row j is y_j minus the prediction of the
\* fit on rows [0, j-1], and entries 0 .. span-2 of the output are missing.
C8_RecursiveEqualsBatch ==
    (/\ r_pc \in {"loop", "done"}
     /\ NCols(r_X) <= span /\ span < Len(r_X)
     /\ ~Singular(Gram(SubSeq(r_X, 1, span), NCols(r_X)))) =>
        /\ BatchFit(r_beta, j - 1)
        /\ \A i \in (span + 1)..(j - 1) :
              \A b \in {BatchBeta(i - 1)} :
                  /\ BatchFit(b, i - 1)
                  /\ recresid_[i] = RSub(r_y[i], Dot(r_X[i], b))
        /\ \A i \in 1..(span - 1) : IsNaN(recresid_[i])
        /\ r_pc = "done" =>
              /\ Len(r_out) = Len(r_X)
              /\ \A i \in 1..(span - 1) : IsNaN(r_out[i])
              /\ \A i \in span..Len(r_X) : ~IsNaN(r_out[i])

\* C8 witness: a returned call on two design columns that performed at least
\* two rank-one updates and recorded a non-zero recursive residual
C8_Witness ==
    /\ r_pc = "done"
    /\ NCols(r_X) = 2
    /\ span = 2
    /\ Len(r_X) >= 4
    /\ ~Singular(Gram(SubSeq(r_X, 1, span), 2))
    /\ r_out[Len(r_X)][1] # 0
    /\ r_out[1] = NaN

=============================================================================
